---- MODULE Spec2Model ----
(***************************************************************************)
(* gen_data.py: fetch the California housing dataset, wrap the feature     *)
(* matrix and the target vector in two DataFrames and write each to a CSV  *)
(* file without header and without index.                                  *)
(*                                                                         *)
(* A file is a record [exists, bytes]; bytes is the sequence of characters *)
(* of the file, line terminators included.  A float is modelled by its     *)
(* number of tenths (12 stands for 1.2), so that its text is computed and  *)
(* parsed digit by digit.                                                  *)
(***************************************************************************)
EXTENDS Integers, Sequences, FiniteSets, TLC

\* ------------------------------------------------------------------ bounds
MaxSamples == 2
MaxCols == 2

\* The samples a dataset version is made of; sample s has the features
\* s.1, s.2, ... (one per column) and the target s.0.
SampleIds == {0, 1}

\* ------------------------------------------------------------------- text
NL == "\n"
SEP == ","
DigitChars == <<"0", "1", "2", "3", "4", "5", "6", "7", "8", "9">>

Digit(d) == DigitChars[d + 1]

IsDigit(c) == \E d \in 0..9 : DigitChars[d + 1] = c

DigitVal(c) == CHOOSE d \in 0..9 : DigitChars[d + 1] = c

RECURSIVE IntStr(_)
\* str(n) of a non-negative integer
IntStr(n) == IF n < 10 THEN <<Digit(n)>> ELSE IntStr(n \div 10) \o <<Digit(n % 10)>>

\* repr of the float whose number of tenths is v: "1.2" for 12, "0.0" for 0
Repr(v) == IntStr(v \div 10) \o <<".">> \o <<Digit(v % 10)>>

RECURSIVE Join(_, _)
\* sep.join(fields)
Join(fields, sep) ==
    IF Len(fields) = 0 THEN <<>>
    ELSE IF Len(fields) = 1 THEN fields[1]
    ELSE fields[1] \o <<sep>> \o Join(Tail(fields), sep)

\* ------------------------------------------------- arrays and DataFrames
\* A numpy array: ndim 2 is a sequence of rows, ndim 1 a sequence of values.
NoArray == [ndim |-> 0, v |-> <<>>]
Unbound == [data |-> NoArray, target |-> NoArray]
NoFrame == <<>>

\* The dataset the loader serves: sample ids[i] in row i, cols columns.
Bunch(ids, cols) ==
    [data   |-> [ndim |-> 2,
                 v |-> [i \in 1..Len(ids) |-> [j \in 1..cols |-> 10 * ids[i] + j]]],
     target |-> [ndim |-> 1,
                 v |-> [i \in 1..Len(ids) |-> 10 * ids[i]]]]

RECURSIVE SeqsOver(_, _)
SeqsOver(S, n) ==
    IF n = 0 THEN {<<>>}
    ELSE {Append(s, x) : s \in SeqsOver(S, n - 1), x \in S}

Datasets ==
    {Bunch(ids, cols) : ids \in UNION {SeqsOver(SampleIds, n) : n \in 1..MaxSamples},
                        cols \in 1..MaxCols}

\* pd.DataFrame(a) with a 1-d array made one row instead of one column
DataFrameAsRow(a) == IF a.ndim = 1 THEN <<a.v>> ELSE a.v

\* pd.DataFrame(a): the rows of the frame; a 1-d array becomes one column.
\* Row and column labels are the default RangeIndex 0, 1, ...
DataFrame(a) ==
    IF a.ndim = 1 THEN [i \in 1..Len(a.v) |-> <<a.v[i]>>] ELSE a.v

\* DataFrame.to_csv's text: an optional header line of column labels, then
\* one line per row, optionally led by the row label; fields joined by ","
\* and every line ended by the line terminator.
CsvText(df, index, header) ==
    LET ncols == IF Len(df) = 0 THEN 0 ELSE Len(df[1])
        lead(s) == IF index THEN <<s>> ELSE <<>>
        head == IF header
                THEN Join(lead(<<>>) \o [j \in 1..ncols |-> IntStr(j - 1)], SEP) \o <<NL>>
                ELSE <<>>
        line(i) == Join(lead(IntStr(i - 1)) \o [j \in 1..ncols |-> Repr(df[i][j])], SEP)
                   \o <<NL>>
        RECURSIVE body(_)
        body(i) == IF i > Len(df) THEN <<>> ELSE line(i) \o body(i + 1)
    IN head \o body(1)

\* ------------------------------------------------------------ parsing
\* What a reader of the files sees: lines, fields, numbers.
RECURSIVE Split(_, _)
\* s.split(sep): at least one piece
Split(s, sep) ==
    IF \A i \in 1..Len(s) : s[i] # sep THEN <<s>>
    ELSE LET p == CHOOSE i \in 1..Len(s) : s[i] = sep /\ \A k \in 1..(i - 1) : s[k] # sep
         IN <<SubSeq(s, 1, p - 1)>> \o Split(SubSeq(s, p + 1, Len(s)), sep)

\* The lines of a text; a last line without terminator counts as a line.
Lines(text) ==
    LET p == Split(text, NL)
    IN IF p[Len(p)] = <<>> THEN SubSeq(p, 1, Len(p) - 1) ELSE p

Fields(line) == Split(line, SEP)

NaN == 0 - 1

RECURSIVE ParseInt(_)
ParseInt(s) ==
    IF Len(s) = 1 THEN DigitVal(s[1])
    ELSE 10 * ParseInt(SubSeq(s, 1, Len(s) - 1)) + DigitVal(s[Len(s)])

\* float(field), in tenths; NaN for a field that is no number d...d.d
ParseFloat(field) ==
    LET p == Split(field, ".")
    IN IF Len(p) = 2 /\ Len(p[1]) >= 1 /\ Len(p[2]) = 1
          /\ \A i \in 1..Len(p[1]) : IsDigit(p[1][i])
          /\ IsDigit(p[2][1])
       THEN 10 * ParseInt(p[1]) + DigitVal(p[2][1])
       ELSE NaN

\* The table a CSV text holds: one row of numbers per line.
ParseCsv(text) ==
    LET ls == Lines(text)
    IN [i \in 1..Len(ls) |->
          LET fs == Fields(ls[i]) IN [j \in 1..Len(fs) |-> ParseFloat(fs[j])]]

\* ------------------------------------------------------------ the files
FEATURES == "features.csv"
TARGETS == "targets.csv"
SCRIPT == "gen_data.py"
\* the loader's cache, <data_home>/cal_housing_py3.pkz, outside the working directory
CACHE == "cal_housing_py3.pkz"

WorkDir == {FEATURES, TARGETS, SCRIPT}
Paths == WorkDir \cup {CACHE}

Absent == [exists |-> FALSE, bytes |-> <<>>]
File(bytes) == [exists |-> TRUE, bytes |-> bytes]

\* What an output file may hold before a run: nothing, two rows of another
\* dataset, a line cut short.
PriorContents ==
    {Absent,
     File(<<"9", ".", "9", NL, "9", ".", "8", NL>>),
     File(<<"9", ".", "9", SEP, "9">>)}

\* open(path, "a"): the previous bytes are kept
OpenAppend(old) == old.bytes

\* open(path, "w"): the file is created or truncated
OpenWrite(old) == <<>>

\* ------------------------------------------------------------ the program
StepOrder == <<"fetch", "frames", "write_features", "write_targets">>

VARIABLES
    dataset,    \* the dataset version the loader serves
    fs,         \* the file system: path -> file
    pc,         \* the statement to execute next, or "done" / "failed"
    housing,    \* line 4
    features,   \* line 5
    targets,    \* line 5
    failedAt,   \* the statement whose exception ended the run, or "none"
    trace,      \* the statements executed in this run, in order
    pre,        \* the file system when this run started
    run,        \* "first" or "second" run
    firstOut    \* what the first run left, and whether it succeeded

vars == <<dataset, fs, pc, housing, features, targets, failedAt, trace, pre, run, firstOut>>

NoOutput == [ok |-> FALSE, features |-> Absent, targets |-> Absent]

Init ==
    /\ dataset \in Datasets
    /\ \E pf \in PriorContents, pt \in PriorContents, c \in {Absent, File(<<"pkz">>)} :
          fs = [p \in Paths |->
                  IF p = FEATURES THEN pf
                  ELSE IF p = TARGETS THEN pt
                  ELSE IF p = CACHE THEN c
                  ELSE File(<<"py">>)]
    /\ pc = "fetch"
    /\ housing = Unbound
    /\ features = NoFrame
    /\ targets = NoFrame
    /\ failedAt = "none"
    /\ trace = <<>>
    /\ pre = fs
    /\ run = "first"
    /\ firstOut = NoOutput

\* try/except around a statement that ignores the error and goes on
Swallow(step) ==
    IF step = "write_targets" THEN "done"
    ELSE StepOrder[(CHOOSE i \in 1..Len(StepOrder) : StepOrder[i] = step) + 1]

\* a retry loop around a statement
Retry(step) == step

\* An exception nothing catches: the interpreter exits, no later statement runs.
Raise(step) == "failed"

\* the two writes in the opposite order
AfterSwapped(step) ==
    IF step = "fetch" THEN "frames"
    ELSE IF step = "frames" THEN "write_targets"
    ELSE IF step = "write_targets" THEN "write_features"
    ELSE "done"

\* The statement after one that returned: the script is a straight line.
After(step) ==
    IF step = "fetch" THEN "frames"
    ELSE IF step = "frames" THEN "write_features"
    ELSE IF step = "write_features" THEN "write_targets"
    ELSE "done"

Executed(step) == trace' = Append(trace, step)

\* line 4, dataset in the cache: it is read from there
FetchCached ==
    /\ pc = "fetch"
    /\ fs[CACHE].exists
    /\ housing' = dataset
    /\ pc' = After("fetch")
    /\ Executed("fetch")
    /\ UNCHANGED <<dataset, fs, features, targets, failedAt, pre, run, firstOut>>

\* line 4, no cache (download_if_missing=True): downloaded and cached
FetchDownload ==
    /\ pc = "fetch"
    /\ ~fs[CACHE].exists
    /\ fs' = [fs EXCEPT ![CACHE] = File(<<"pkz">>)]
    /\ housing' = dataset
    /\ pc' = After("fetch")
    /\ Executed("fetch")
    /\ UNCHANGED <<dataset, features, targets, failedAt, pre, run, firstOut>>

\* line 4, no cache and the download fails: the loader raises
FetchFail ==
    /\ pc = "fetch"
    /\ ~fs[CACHE].exists
    /\ failedAt' = "fetch"
    /\ pc' = Raise("fetch")
    /\ Executed("fetch")
    /\ UNCHANGED <<dataset, fs, housing, features, targets, pre, run, firstOut>>

\* line 5
MakeFrames ==
    /\ pc = "frames"
    /\ features' = DataFrame(housing.data)
    /\ targets' = DataFrame(housing.target)
    /\ pc' = After("frames")
    /\ Executed("frames")
    /\ UNCHANGED <<dataset, fs, housing, failedAt, pre, run, firstOut>>

\* the header argument of line 8 left at its default
TargetsCsvWithHeader == CsvText(targets, FALSE, TRUE)

\* the index argument of line 7 left at its default
FeaturesCsvWithIndex == CsvText(features, TRUE, FALSE)

\* line 7: features.to_csv("features.csv", index=False, header=False)
FeaturesCsv == CsvText(features, FALSE, FALSE)

\* line 8: targets.to_csv("targets.csv", index=False, header=False)
TargetsCsv == CsvText(targets, FALSE, FALSE)

\* df.to_csv(path, ...) returns: the file holds the text and nothing else
ToCsvOk(step, path, text) ==
    /\ pc = step
    /\ fs' = [fs EXCEPT ![path] = File(OpenWrite(fs[path]) \o text)]
    /\ pc' = After(step)
    /\ Executed(step)
    /\ UNCHANGED <<dataset, housing, features, targets, failedAt, pre, run, firstOut>>

\* df.to_csv(path, ...) raises in open(): the file is as it was
ToCsvOpenFail(step, path) ==
    /\ pc = step
    /\ failedAt' = step
    /\ pc' = Raise(step)
    /\ Executed(step)
    /\ UNCHANGED <<dataset, fs, housing, features, targets, pre, run, firstOut>>

\* df.to_csv(path, ...) raises while writing: the file holds the first k
\* characters of the text, for some k short of all of them
ToCsvWriteFail(step, path, text) ==
    /\ pc = step
    /\ \E k \in 0..(Len(text) - 1) :
          fs' = [fs EXCEPT ![path] = File(OpenWrite(fs[path]) \o SubSeq(text, 1, k))]
    /\ failedAt' = step
    /\ pc' = Raise(step)
    /\ Executed(step)
    /\ UNCHANGED <<dataset, housing, features, targets, pre, run, firstOut>>

WriteFeatures == ToCsvOk("write_features", FEATURES, FeaturesCsv)
WriteFeaturesOpenFail == ToCsvOpenFail("write_features", FEATURES)
WriteFeaturesFail == ToCsvWriteFail("write_features", FEATURES, FeaturesCsv)

WriteTargets == ToCsvOk("write_targets", TARGETS, TargetsCsv)
WriteTargetsOpenFail == ToCsvOpenFail("write_targets", TARGETS)
WriteTargetsFail == ToCsvWriteFail("write_targets", TARGETS, TargetsCsv)

Ended == pc \in {"done", "failed"}

\* The script is run again on the same dataset version; in between, anything
\* may have happened to the two output files.
Rerun ==
    /\ Ended
    /\ run = "first"
    /\ run' = "second"
    /\ firstOut' = [ok |-> pc = "done", features |-> fs[FEATURES], targets |-> fs[TARGETS]]
    /\ \E pf \in PriorContents \cup {fs[FEATURES]}, pt \in PriorContents \cup {fs[TARGETS]} :
          fs' = [fs EXCEPT ![FEATURES] = pf, ![TARGETS] = pt]
    /\ pre' = fs'
    /\ pc' = "fetch"
    /\ housing' = Unbound
    /\ features' = NoFrame
    /\ targets' = NoFrame
    /\ failedAt' = "none"
    /\ trace' = <<>>
    /\ UNCHANGED dataset

Step ==
    \/ FetchCached
    \/ FetchDownload
    \/ FetchFail
    \/ MakeFrames
    \/ WriteFeatures
    \/ WriteFeaturesOpenFail
    \/ WriteFeaturesFail
    \/ WriteTargets
    \/ WriteTargetsOpenFail
    \/ WriteTargetsFail

Next == Step \/ Rerun

Spec == Init /\ [][Next]_vars

\* One run, in which the loader and the file system calls return: a
\* statement that can run, runs.
RunSpec == Init /\ [][Step]_vars /\ WF_vars(Step)

TypeOK ==
    /\ pc \in {"fetch", "frames", "write_features", "write_targets", "done", "failed"}
    /\ run \in {"first", "second"}
    /\ \A p \in Paths : fs[p].exists \in BOOLEAN

\* ------------------------------------------------------------ properties
N == Len(dataset.data.v)
K == Len(dataset.data.v[1])

Range(s) == {s[i] : i \in 1..Len(s)}

IsPrefix(s, t) == Len(s) <= Len(t) /\ \A i \in 1..Len(s) : s[i] = t[i]

\* The number of rows a reader finds in a file; none in a file that is not there.
RowCount(path) == IF fs[path].exists THEN Len(Lines(fs[path].bytes)) ELSE 0

\* The file was cut short: it holds less than the text meant for it.
CutShort(path, text) ==
    /\ fs[path].exists
    /\ Len(fs[path].bytes) < Len(text)
    /\ IsPrefix(fs[path].bytes, text)

\* C1 as stated: whenever the fetch succeeded and the run has ended, the two
\* files have the same number of rows.
C1_AnyEndedRun ==
    (Ended /\ "fetch" \in Range(trace) /\ failedAt # "fetch")
        => RowCount(FEATURES) = RowCount(TARGETS)

\* C1: when a run has ended in success, features.csv and targets.csv exist
\* and have the same number of rows.
C1_RowCountsEqual ==
    pc = "done" =>
        /\ fs[FEATURES].exists /\ fs[TARGETS].exists
        /\ RowCount(FEATURES) = RowCount(TARGETS)

C1_Witness ==
    /\ pc = "done"
    /\ RowCount(FEATURES) = MaxSamples
    /\ RowCount(TARGETS) = MaxSamples
    /\ pre[FEATURES].exists /\ ~pre[TARGETS].exists

\* C2: after a successful run, row i of features.csv reads as the feature
\* values of sample i of the dataset and row i of targets.csv as the target of
\* that sample, for every i and for no other row.
C2_RowsAligned ==
    pc = "done" =>
        /\ ParseCsv(fs[FEATURES].bytes) = dataset.data.v
        /\ ParseCsv(fs[TARGETS].bytes) = [i \in 1..N |-> <<dataset.target.v[i]>>]

C2_Witness ==
    /\ pc = "done"
    /\ N >= 2
    /\ dataset.target.v[1] # dataset.target.v[2]
    /\ ParseCsv(fs[TARGETS].bytes)[2] = <<dataset.target.v[2]>>
    /\ ParseCsv(fs[FEATURES].bytes)[2] = dataset.data.v[2]

\* C3: after a successful run on N samples with K feature columns,
\* features.csv has N lines of K fields and targets.csv N lines of 1 field;
\* line 1 is the first sample's data, not a header, and no line starts with
\* a row index.
C3_Shape ==
    pc = "done" =>
        LET fl == Lines(fs[FEATURES].bytes)
            tl == Lines(fs[TARGETS].bytes)
        IN /\ Len(fl) = N
           /\ Len(tl) = N
           /\ \A i \in 1..N : Len(Fields(fl[i])) = K /\ Len(Fields(tl[i])) = 1
           /\ ParseFloat(Fields(fl[1])[1]) = dataset.data.v[1][1]
           /\ ParseFloat(Fields(tl[1])[1]) = dataset.target.v[1]
           /\ fs[FEATURES].bytes[Len(fs[FEATURES].bytes)] = NL
           /\ fs[TARGETS].bytes[Len(fs[TARGETS].bytes)] = NL

C3_Witness ==
    /\ pc = "done"
    /\ N = MaxSamples
    /\ K = MaxCols
    /\ Len(Lines(fs[FEATURES].bytes)) = MaxSamples
    /\ Len(Fields(Lines(fs[FEATURES].bytes)[1])) = MaxCols

\* C4: a second successful run leaves features.csv and targets.csv exactly as
\* the first successful run on the same dataset version left them, whatever
\* the files held before either run.
C4_Deterministic ==
    (run = "second" /\ pc = "done" /\ firstOut.ok) =>
        /\ fs[FEATURES] = firstOut.features
        /\ fs[TARGETS] = firstOut.targets

C4_Witness ==
    /\ run = "second" /\ pc = "done" /\ firstOut.ok
    /\ pre[FEATURES] # firstOut.features
    /\ pre[TARGETS] = firstOut.targets
    /\ fs[FEATURES] = firstOut.features

\* C5: the statement that failed is the last one the run executed; after a
\* failed fetch both output files are as they were before the run; after a
\* failed write of features.csv the write of targets.csv was not executed
\* and targets.csv is as it was before the run.
C5_AbortsAtFailure ==
    /\ failedAt # "none" => trace # <<>> /\ trace[Len(trace)] = failedAt
    /\ failedAt = "fetch" => fs[FEATURES] = pre[FEATURES] /\ fs[TARGETS] = pre[TARGETS]
    /\ failedAt = "write_features" =>
          "write_targets" \notin Range(trace) /\ fs[TARGETS] = pre[TARGETS]

C5_Witness ==
    /\ failedAt = "write_features"
    /\ pc = "failed"
    /\ fs[FEATURES] # pre[FEATURES]
    /\ pre[TARGETS].exists
    /\ fs[TARGETS] = pre[TARGETS]

\* C6: a run is in the success state only if no statement failed and both
\* files hold their complete text; once a statement has failed the run is in
\* the failure state, also when features.csv was written completely before
\* the write of targets.csv failed.
C6_SuccessMeansBothWritten ==
    /\ pc = "done" =>
          /\ failedAt = "none"
          /\ fs[FEATURES] = File(FeaturesCsv)
          /\ fs[TARGETS] = File(TargetsCsv)
    /\ failedAt # "none" => pc = "failed"

C6_Witness ==
    /\ failedAt = "write_targets"
    /\ pc = "failed"
    /\ fs[FEATURES] = File(FeaturesCsv)
    /\ fs[FEATURES] # pre[FEATURES]

C8_Terminates ==
    /\ <>Ended
    /\ [](IsPrefix(trace, StepOrder))

C8_Witness ==
    /\ pc = "done"
    /\ trace = StepOrder

\* C9: nothing is cleaned up or rolled back on a failure.  When the write of
\* targets.csv fails, features.csv holds its complete new text and
\* targets.csv is as before the run (absent or stale) or cut short; when
\* the write of features.csv fails, features.csv is as before or cut short.
C9_NoCleanup ==
    /\ failedAt = "write_targets" =>
          /\ fs[FEATURES] = File(FeaturesCsv)
          /\ fs[TARGETS] = pre[TARGETS] \/ CutShort(TARGETS, TargetsCsv)
    /\ failedAt = "write_features" =>
          fs[FEATURES] = pre[FEATURES] \/ CutShort(FEATURES, FeaturesCsv)

C9_Witness ==
    /\ failedAt = "write_targets"
    /\ fs[FEATURES] = File(FeaturesCsv)
    /\ CutShort(TARGETS, TargetsCsv)
    /\ RowCount(TARGETS) >= 1
    /\ RowCount(FEATURES) # RowCount(TARGETS)

\* C10: the statements run in the order of the script.  An output file
\* differs from what it was before the run only after the fetch succeeded
\* and its own write was executed, and whenever the write of targets.csv
\* has been executed features.csv already holds its complete text.
C10_Order ==
    /\ IsPrefix(trace, StepOrder)
    /\ fs[FEATURES] # pre[FEATURES] =>
          "write_features" \in Range(trace) /\ failedAt # "fetch" /\ housing = dataset
    /\ fs[TARGETS] # pre[TARGETS] =>
          "write_targets" \in Range(trace) /\ housing = dataset
    /\ "write_targets" \in Range(trace) =>
          fs[FEATURES] = File(FeaturesCsv) /\ failedAt \notin {"fetch", "write_features"}

C10_Witness ==
    /\ failedAt = "write_targets"
    /\ fs[TARGETS] # pre[TARGETS]
    /\ RowCount(TARGETS) >= 1
    /\ fs[FEATURES] = File(FeaturesCsv)

====
